---- MODULE Spec2Model ----
(***************************************************************************)
(* A model of pbalign's option resolution (pbalign/options.py) and of its  *)
(* BAM post-processing service (pbalign/bampostservice.py).                *)
(*                                                                         *)
(* Strings of the option layer are sequences of atoms: an atom is either   *)
(* one special character (blank, '=', '#', '-', a quote) or a maximal run  *)
(* of ordinary characters (a word such as "nproc").  Every string          *)
(* operation the option layer performs (strip, lstrip, split on '=',       *)
(* startswith, indexing the first and last character of a string that      *)
(* starts and ends with a quote, join) only looks at special characters,   *)
(* so it acts on atoms exactly as it acts on characters.                   *)
(*                                                                         *)
(* Strings of the BAM service (file names, the version-query output) and   *)
(* the texts of numbers written with str() are sequences of single         *)
(* characters, because the code slices or converts them character by       *)
(* character.                                                              *)
(***************************************************************************)
EXTENDS Integers, Sequences, FiniteSets, TLC

VARIABLES
    \* option resolution
    args,               \* the command line, grouped by option
    configFile,         \* what the path given with --configFile holds
    pc,                 \* position of the resolution: start, parsed, failed, resolved
    err,                \* the exception that ended the resolution, NoErr if none
    selected,           \* newOptions.algorithmOptions after line 525, before unquote
    parsedOptions,      \* the namespace parse_args returned
    additionalDefaults, \* the defaults map handed to importDefaultOptions
    resolved,           \* the namespace importDefaultOptions returned
    run,                \* which resolution of the same inputs is under way: 1, 2
    firstRun,           \* how the first resolution ended, once a second has begun
    rtc,                \* the resolved tool contract, when the options come from one
    \* BAM post-processing service
    outBamFile,         \* self.outBamFile
    nproc,              \* self.nproc
    bpc,                \* position of run(): init, sorted, indexed, done, failed
    berr,               \* the exception that ended run(), NoBErr if none
    versionOutput,      \* the lines samtools --version prints where run() runs
    cmds                \* every command handed to Execute, in order, and whether
                        \* Execute returned (ok) or raised

vars == <<args, configFile, pc, err, selected, parsedOptions, additionalDefaults,
          resolved, run, firstRun, rtc, outBamFile, nproc, bpc, berr, versionOutput,
          cmds>>

optVars == <<args, configFile, pc, err, selected, parsedOptions,
             additionalDefaults, resolved, run, firstRun, rtc>>

bamVars == <<outBamFile, nproc, bpc, berr, versionOutput, cmds>>

-----------------------------------------------------------------------------
(* Bounds of the model.                                                    *)

MaxLines == 2       \* lines of a config file
MaxLinesTwice == 1  \* lines of a config file that is resolved twice
MaxOcc == 2         \* occurrences of --algorithmOptions on the command line

-----------------------------------------------------------------------------
(* Values: Python's None, bool, int, float, str and list of str.  A float   *)
(* is held as a decimal numeral: the value of FloatV(p, ds) is              *)
(* 0.d1 d2 ... dn * 10^p, with no zero at either end of ds.                 *)

None == [t |-> "none", n |-> 0, s |-> <<>>, l |-> <<>>]
BoolV(b) == [t |-> "bool", n |-> IF b THEN 1 ELSE 0, s |-> <<>>, l |-> <<>>]
IntV(i) == [t |-> "int", n |-> i, s |-> <<>>, l |-> <<>>]
StrV(str) == [t |-> "str", n |-> 0, s |-> str, l |-> <<>>]
ListV(lst) == [t |-> "list", n |-> 0, s |-> <<>>, l |-> lst]
FloatV(point, digits) == [t |-> "float", n |-> point, s |-> digits, l |-> <<>>]

EmptyNamespace == [k \in {} |-> None]

\* Special characters of the option layer.
SQ == "'"
DQ == "\""
SP == " "
Quotes == {SQ, DQ}

-----------------------------------------------------------------------------
(* Python string methods.                                                  *)

RECURSIVE LStrip(_, _)
\* str.lstrip(chars): drop every leading element that is in chars.
LStrip(str, chars) ==
    IF str # <<>> /\ Head(str) \in chars THEN LStrip(Tail(str), chars) ELSE str

RECURSIVE RStrip(_, _)
\* str.rstrip(chars)
RStrip(str, chars) ==
    IF str # <<>> /\ str[Len(str)] \in chars
    THEN RStrip(SubSeq(str, 1, Len(str) - 1), chars)
    ELSE str

\* str.strip(chars)
Strip(str, chars) == RStrip(LStrip(str, chars), chars)

\* The positions of sep in str.
Positions(str, sep) == {i \in 1..Len(str) : str[i] = sep}

RECURSIVE Join(_, _)
\* sep.join(lst)
Join(lst, sep) ==
    IF lst = <<>> THEN <<>>
    ELSE IF Len(lst) = 1 THEN lst[1]
    ELSE lst[1] \o sep \o Join(Tail(lst), sep)

-----------------------------------------------------------------------------
(* The argument parser built by constructOptionParser, for the options the *)
(* model follows.                                                          *)

\* The dest of every option of the parser the model follows.
Dests == {"configFile", "nproc", "maxHits", "concordant", "algorithmOptions",
          "verbose", "minAccuracy", "minLength"}

\* type= of each add_argument call; a store_true option holds a bool.
DeclaredType(k) ==
    CASE k \in {"nproc", "maxHits", "minLength"} -> "int"
      [] k = "minAccuracy" -> "float"
      [] k \in {"concordant", "verbose"} -> "bool"
      [] OTHER -> "str"

\* action= of each add_argument call.
ArgAction(k) ==
    CASE k \in {"concordant", "verbose"} -> "store_true"
      [] k = "algorithmOptions" -> "append"
      [] OTHER -> "store"

\* default= of each add_argument call.
ParserDefault(k) ==
    CASE k = "nproc" -> IntV(8)
      [] k \in {"concordant", "verbose"} -> BoolV(FALSE)
      [] k = "minAccuracy" -> FloatV(2, <<"7">>)
      [] k = "minLength" -> IntV(50)
      [] OTHER -> None

\* DEFAULT_OPTIONS, restricted to the options the model follows.
DEFAULT_OPTIONS ==
    [k \in {"configFile", "maxHits", "concordant", "algorithmOptions", "nproc",
             "minAccuracy", "minLength"} |->
        CASE k = "maxHits" -> IntV(10)
          [] k = "concordant" -> BoolV(FALSE)
          [] k = "nproc" -> IntV(8)
          [] k = "minAccuracy" -> FloatV(2, <<"7">>)
          [] k = "minLength" -> IntV(50)
          [] OTHER -> None]

\* argparse's append action on a namespace attribute: None becomes [], the
\* list is copied and the new values are appended.
AppendTo(ns, k, given) ==
    LET old == IF k \in DOMAIN ns /\ ns[k].t = "list" THEN ns[k].l ELSE <<>>
    IN  ListV(old \o [i \in 1..Len(given) |-> given[i].s])

\* ArgParse as it would be if every parse started from the parser defaults:
\* an attribute the command line does not mention is reset to its default.
ArgParseFromDefaults(a, ns) ==
    [k \in Dests \cup DOMAIN ns |->
        IF k \in Dests /\ a[k] # <<>>
        THEN CASE ArgAction(k) = "store" -> a[k][Len(a[k])]
               [] ArgAction(k) = "store_true" -> BoolV(TRUE)
               [] ArgAction(k) = "append" -> AppendTo(ns, k, a[k])
        ELSE IF k \in Dests THEN ParserDefault(k) ELSE ns[k]]

\* argparse.ArgumentParser.parse_args(args, namespace): an attribute the
\* namespace lacks gets the parser default, then every option present on the
\* command line is stored (store: the last occurrence; store_true: True;
\* append: every occurrence); an attribute the namespace already has and the
\* command line does not mention is left alone.  a[k] is the sequence of the
\* values option k has on the command line, already converted by type=.
ArgParse(a, ns) ==
    [k \in Dests \cup DOMAIN ns |->
        IF k \in Dests /\ a[k] # <<>>
        THEN CASE ArgAction(k) = "store" -> a[k][Len(a[k])]
               [] ArgAction(k) = "store_true" -> BoolV(TRUE)
               [] ArgAction(k) = "append" -> AppendTo(ns, k, a[k])
        ELSE IF k \in DOMAIN ns THEN ns[k] ELSE ParserDefault(k)]

-----------------------------------------------------------------------------
(* importConfigOptions                                                     *)

NoErr == [exc |-> "", msg |-> "", line |-> 0]
Raise(exc, msg, line) == [exc |-> exc, msg |-> msg, line |-> line]

\* The reserved argument names a config file may hold on a line of their own.
specialArguments ==
    { <<"-", "-", "version">>, <<"-", "-", "configFile">>, <<"-", "-", "verbose">>,
      <<"-", "-", "debug">>, <<"-", "-", "profile">>, <<"-", "v">>, <<"-", "vv">>,
      <<"-", "vvv">>, <<"-", "-", "keepTmpFiles">> }

\* Lines 456-457: the lines the loop passes over.
IsSkipped(line) ==
    \/ (line # <<>> /\ Head(line) = "#")
    \/ line = <<>>
    \/ line \in specialArguments

\* SplitsInTwo as it would be with line.split("=", 1): one '=' or more.
SplitsAtFirst(line) == Cardinality(Positions(line, "=")) >= 1

\* k, v = line.split("=") succeeds only with exactly one '='.
SplitsInTwo(line) == Cardinality(Positions(line, "=")) = 1

\* Line 462: k.lstrip().lstrip('-').strip()
LineKey(line) ==
    LET p == CHOOSE i \in Positions(line, "=") : TRUE
        k == SubSeq(line, 1, p - 1)
    IN  Strip(LStrip(LStrip(k, {SP}), {"-"}), {SP})

\* Line 463: v.strip().strip('\"').strip('\'')
LineValue(line) ==
    LET p == CHOOSE i \in Positions(line, "=") : TRUE
        v == SubSeq(line, p + 1, Len(line))
    IN  Strip(Strip(Strip(v, {SP}), {DQ}), {SQ})

\* IsOption as it would be if every key were taken for an option's name.
IsOptionAnyKey(ns, k) == Len(k) >= 0

\* Line 469: k in optionsDictView
IsOption(ns, k) == Len(k) = 1 /\ k[1] \in DOMAIN ns

\* The body of the loop over the lines of the config file (lines 453-474),
\* for line number i: the new namespace, or the exception raised.
ImportLine(ns, rawLine, i) ==
    LET line == Strip(rawLine, {SP})
    IN  IF IsSkipped(line) THEN [err |-> NoErr, ns |-> ns]
        ELSE IF ~SplitsInTwo(line)
        THEN [err |-> Raise("ValueError", "could not find '='", i), ns |-> ns]
        ELSE IF ~IsOption(ns, LineKey(line))
        THEN [err |-> Raise("ValueError", "is an invalid option", i), ns |-> ns]
        ELSE [err |-> NoErr,
              ns |-> [ns EXCEPT ![LineKey(line)[1]] = StrV(LineValue(line))]]

RECURSIVE ImportLines(_, _, _)
\* for line in cf: the lines from number i on; the first exception ends the loop.
ImportLines(ns, lines, i) ==
    IF i > Len(lines) THEN [err |-> NoErr, ns |-> ns]
    ELSE LET r == ImportLine(ns, lines[i], i)
         IN  IF r.err # NoErr THEN r ELSE ImportLines(r.ns, lines, i + 1)

\* importConfigOptions(options), reading file: the copy of the options with the
\* config file's assignments, or the exception raised.
ImportConfigOptions(options, file) ==
    IF "configFile" \notin DOMAIN options \/ options["configFile"] = None
    THEN [err |-> NoErr, ns |-> options]
    ELSE IF file.kind # "file"
    THEN [err |-> Raise("IOError", "Could not open a config file", 0), ns |-> options]
    ELSE ImportLines(options, file.lines, 1)

-----------------------------------------------------------------------------
(* _ArgParser.parse_args                                                   *)

\* Reconcile as it would be if the config file's value were preferred.
ReconcileConfigFirst(newAlgo, configAlgo) ==
    IF configAlgo # None /\ configAlgo.t = "str" THEN configAlgo
    ELSE IF newAlgo = None THEN None
    ELSE StrV(Join(newAlgo.l, <<SP>>))

\* Lines 520-525: the command line's occurrences joined with one blank, else
\* the config file's value, else None.
Reconcile(newAlgo, configAlgo) ==
    IF newAlgo = None
    THEN IF configAlgo # None THEN configAlgo ELSE None
    ELSE StrV(Join(newAlgo.l, <<SP>>))

\* Lines 529-532: unquote(s).  s[0] of an empty string raises IndexError.
Unquote(s) ==
    IF s = <<>> THEN [err |-> Raise("IndexError", "string index out of range", 0), s |-> s]
    ELSE IF s[1] \in Quotes /\ s[Len(s)] \in Quotes
    THEN [err |-> NoErr, s |-> SubSeq(s, 2, Len(s) - 1)]
    ELSE [err |-> NoErr, s |-> s]

\* Lines 506-510: the first parse and the config file's overlay.
ConfigOptions(a, file) == ImportConfigOptions(ArgParse(a, EmptyNamespace), file)

\* Lines 514-517: the second parse, into a copy of the config options whose
\* algorithmOptions is cleared.
SecondParse(a, configOptions) ==
    ArgParse(a, [configOptions EXCEPT !["algorithmOptions"] = None])

\* parse_args(args) with the config file holding file: the exception raised
\* (NoErr if none), the value selected for algorithmOptions before unquote, and
\* the namespace returned.
ParseArgsResult(a, file) ==
    LET cfg == ConfigOptions(a, file)
    IN  IF cfg.err # NoErr
        THEN [err |-> cfg.err, selected |-> None, ns |-> EmptyNamespace]
        ELSE
          LET newOptions == SecondParse(a, cfg.ns)
              sel == Reconcile(newOptions["algorithmOptions"],
                               cfg.ns["algorithmOptions"])
          IN  IF sel = None
              THEN [err |-> NoErr, selected |-> sel,
                    ns |-> [newOptions EXCEPT !["algorithmOptions"] = sel]]
              ELSE
                LET u == Unquote(sel.s)
                IN  IF u.err # NoErr
                    THEN [err |-> u.err, selected |-> sel, ns |-> EmptyNamespace]
                    ELSE [err |-> NoErr, selected |-> sel,
                          ns |-> [newOptions EXCEPT !["algorithmOptions"] = StrV(u.s)]]

-----------------------------------------------------------------------------
(* importDefaultOptions                                                    *)

\* Lines 490-497.  For a key of the defaults that the options lack, the
\* condition of line 494 holds and line 495 reads optionsDictView[k]: KeyError.
ImportDefaultOptions(options, defaults) ==
    IF \E k \in DOMAIN defaults : k \notin DOMAIN options
    THEN [err |-> Raise("KeyError", "optionsDictView[k]", 0), ns |-> EmptyNamespace]
    ELSE [err |-> NoErr,
          ns |-> [k \in DOMAIN options |->
                    IF k \in DOMAIN defaults /\ options[k] = None
                    THEN defaults[k]
                    ELSE options[k]]]

-----------------------------------------------------------------------------
(* The inputs of a resolution.                                             *)

\* Values of --algorithmOptions on the command line.
AlgoStrings ==
    { <<"-", "x", SP, "1">>,            \* -x 1
      <<DQ, "-", "y", SP, "2", DQ>>,    \* "-y 2"
      <<SQ, "w", DQ>> }                 \* 'w"

\* Lines of a config file.
ConfigLines ==
    { <<"#", SP, "nproc", "=", "1", "=", "2">>,                  \* # nproc=1=2
      <<SP>>,                                                   \* a blank line
      <<"-", "-", "verbose">>,                                  \* --verbose
      <<SP, "-", "-", "nproc", SP, "=", SP, "16">>,             \*  --nproc = 16
      <<"maxHits", "=", "7">>,                                  \* maxHits=7
      <<"maxHits", "=", DQ, DQ, "7", DQ, DQ>>,                  \* maxHits=""7""
      <<"algorithmOptions", "=", DQ, DQ>>,                      \* algorithmOptions=""
      <<"algorithmOptions", "=", SQ, DQ, "-", "z", SP, "3", DQ, SQ>>,
                                                                \* algorithmOptions='"-z 3"'
      <<"-", "-", "bogus", "=", "1">>,                          \* --bogus=1
      <<"nproc">>,                                              \* nproc
      <<"nproc", "=", "1", "=", "2">> }                         \* nproc=1=2

\* The sequences over S of length at most n.
SeqsUpTo(S, n) == UNION { [1..m -> S] : m \in 0..n }

ConfigPath == <<"pbalign.cfg">>
NoFile == [kind |-> "absent", lines |-> <<>>]
Unreadable == [kind |-> "unreadable", lines |-> <<>>]

\* What --configFile names: a file that cannot be opened, or a file of lines.
ConfigFiles ==
    {Unreadable} \cup { [kind |-> "file", lines |-> ls] : ls \in SeqsUpTo(ConfigLines, MaxLines) }

\* Command lines: each option absent or given.
CommandLines(file) ==
    { [k \in Dests |->
          CASE k = "configFile" -> IF file = NoFile THEN <<>> ELSE <<StrV(ConfigPath)>>
            [] k = "nproc" -> np
            [] k = "concordant" -> co
            [] k = "algorithmOptions" -> [i \in 1..Len(ao) |-> StrV(ao[i])]
            [] OTHER -> <<>>] :
        np \in {<<>>, <<IntV(4)>>},
        co \in {<<>>, <<BoolV(TRUE)>>},
        ao \in SeqsUpTo(AlgoStrings, MaxOcc) }

-----------------------------------------------------------------------------
(* The resolution as a state machine: parse_args, then importDefaultOptions.*)

\* No first resolution has ended yet; no tool contract is involved.
NoRun == [pc |-> "", err |-> NoErr, parsedOptions |-> EmptyNamespace,
          resolved |-> EmptyNamespace]
NoContract == [nproc |-> 0, minAccuracy |-> None, minLength |-> 0,
               algorithmOptions |-> <<>>]

FirstCall ==
    /\ run = 1
    /\ firstRun = NoRun
    /\ rtc = NoContract

BamIdle ==
    /\ outBamFile = <<>>
    /\ nproc = 1
    /\ bpc = "idle"
    /\ berr = [exc |-> "", from |-> "", stage |-> ""]
    /\ versionOutput = <<>>
    /\ cmds = <<>>

Init ==
    /\ configFile \in ConfigFiles \cup {NoFile}
    /\ args \in CommandLines(configFile)
    /\ pc = "start"
    /\ err = NoErr
    /\ selected = None
    /\ parsedOptions = EmptyNamespace
    /\ additionalDefaults = DEFAULT_OPTIONS
    /\ resolved = EmptyNamespace
    /\ FirstCall
    /\ BamIdle

\* options = parser.parse_args(args)
ParseArgs ==
    /\ pc = "start"
    /\ LET r == ParseArgsResult(args, configFile)
       IN  /\ err' = r.err
           /\ selected' = r.selected
           /\ parsedOptions' = r.ns
           /\ pc' = IF r.err = NoErr THEN "parsed" ELSE "failed"
    /\ UNCHANGED <<args, configFile, additionalDefaults, resolved>>
    /\ UNCHANGED <<run, firstRun, rtc>>
    /\ UNCHANGED bamVars

\* ImportDefaults as it would be if the defaults were written into the options
\* object passed in, not into a copy of it.
ImportDefaultsInPlace ==
    /\ pc = "parsed"
    /\ LET r == ImportDefaultOptions(parsedOptions, additionalDefaults)
       IN  /\ err' = r.err
           /\ resolved' = r.ns
           /\ parsedOptions' = r.ns
           /\ pc' = IF r.err = NoErr THEN "resolved" ELSE "failed"
    /\ UNCHANGED <<args, configFile, selected, additionalDefaults>>
    /\ UNCHANGED <<run, firstRun, rtc>>
    /\ UNCHANGED bamVars

\* importDefaultOptions(options, additionalDefaults), called on what parse_args
\* returned.
ImportDefaults ==
    /\ pc = "parsed"
    /\ LET r == ImportDefaultOptions(parsedOptions, additionalDefaults)
       IN  /\ err' = r.err
           /\ resolved' = r.ns
           /\ pc' = IF r.err = NoErr THEN "resolved" ELSE "failed"
    /\ UNCHANGED <<args, configFile, selected, parsedOptions, additionalDefaults>>
    /\ UNCHANGED <<run, firstRun, rtc>>
    /\ UNCHANGED bamVars

Next == ParseArgs \/ ImportDefaults

Spec == Init /\ [][Next]_vars

-----------------------------------------------------------------------------
(* The resolution called twice by the same caller, with the same parser,   *)
(* argument list, config file and defaults map.                            *)

InitTwice ==
    /\ configFile \in {NoFile, Unreadable} \cup
           { [kind |-> "file", lines |-> ls] : ls \in SeqsUpTo(ConfigLines, MaxLinesTwice) }
    /\ args \in CommandLines(configFile)
    /\ pc = "start"
    /\ err = NoErr
    /\ selected = None
    /\ parsedOptions = EmptyNamespace
    /\ additionalDefaults = DEFAULT_OPTIONS
    /\ resolved = EmptyNamespace
    /\ FirstCall
    /\ BamIdle

\* The caller keeps what the first resolution gave and calls parse_args
\* again: the call starts with fresh locals, and with whatever the first one
\* left in the argument list, the config file and the defaults map.
Rerun ==
    /\ run = 1
    /\ pc \in {"resolved", "failed"}
    /\ firstRun' = [pc |-> pc, err |-> err, parsedOptions |-> parsedOptions,
                    resolved |-> resolved]
    /\ run' = 2
    /\ pc' = "start"
    /\ err' = NoErr
    /\ selected' = None
    /\ parsedOptions' = EmptyNamespace
    /\ resolved' = EmptyNamespace
    /\ UNCHANGED <<args, configFile, additionalDefaults, rtc>>
    /\ UNCHANGED bamVars

NextTwice == ParseArgs \/ ImportDefaults \/ Rerun

SpecTwice == InitTwice /\ [][NextTwice]_vars

-----------------------------------------------------------------------------
(* importDefaultOptions on its own, over every options object and defaults *)
(* map of a few keys.                                                      *)

DefaultsKeys == {"nproc", "algorithmOptions", "verbose"}

\* Values an option may hold: None, False, 0, the empty string, 4.
OptionValues == {None, BoolV(FALSE), IntV(0), StrV(<<>>), IntV(4)}

\* Values a defaults map may give: None (as DEFAULT_OPTIONS does for
\* algorithmOptions), 8.
DefaultValues == {None, IntV(8)}

\* Every map from a subset of keys to vals.
MapsOver(keys, vals) == UNION { [d -> vals] : d \in SUBSET keys }

InitDefaults ==
    /\ args = [k \in Dests |-> <<>>]
    /\ configFile = NoFile
    /\ pc = "parsed"
    /\ err = NoErr
    /\ selected = None
    /\ parsedOptions \in MapsOver(DefaultsKeys, OptionValues)
    /\ additionalDefaults \in MapsOver(DefaultsKeys, DefaultValues)
    /\ resolved = EmptyNamespace
    /\ FirstCall
    /\ BamIdle

NextDefaults == ImportDefaults

SpecDefaults == InitDefaults /\ [][NextDefaults]_vars

-----------------------------------------------------------------------------
(* BamPostService: strings are sequences of single characters.             *)

Samtools == <<"s", "a", "m", "t", "o", "o", "l", "s">>
BamSuffix == <<".", "b", "a", "m">>
Digits == {"0", "1", "2", "3", "4", "5", "6", "7", "8", "9"}

\* str.endswith(suffix)
EndsWith(str, suffix) ==
    /\ Len(str) >= Len(suffix)
    /\ SubSeq(str, Len(str) - Len(suffix) + 1, Len(str)) = suffix

\* sub in str
Contains(str, sub) ==
    \E i \in 1..(Len(str) - Len(sub) + 1) : SubSeq(str, i, i + Len(sub) - 1) = sub

RECURSIVE Split(_, _)
\* str.split(sep), sep one character: always at least one part.
Split(str, sep) ==
    IF Positions(str, sep) = {} THEN <<str>>
    ELSE LET p == CHOOSE i \in Positions(str, sep) : \A j \in Positions(str, sep) : i <= j
         IN  <<SubSeq(str, 1, p - 1)>> \o Split(SubSeq(str, p + 1, Len(str)), sep)

\* The digits of a literal int() accepts: blanks around it and one sign
\* before it are dropped.
Unsigned(str) ==
    LET body == Strip(str, {SP})
    IN  IF body # <<>> /\ Head(body) \in {"+", "-"} THEN Tail(body) ELSE body

\* int(str) does not raise ValueError.
IsInt(str) == Unsigned(str) # <<>> /\ \A i \in 1..Len(Unsigned(str)) : Unsigned(str)[i] \in Digits

DigitValue(c) ==
    CASE c = "0" -> 0 [] c = "1" -> 1 [] c = "2" -> 2 [] c = "3" -> 3 [] c = "4" -> 4
      [] c = "5" -> 5 [] c = "6" -> 6 [] c = "7" -> 7 [] c = "8" -> 8 [] c = "9" -> 9

RECURSIVE Decimal(_)
Decimal(ds) ==
    IF ds = <<>> THEN 0
    ELSE 10 * Decimal(SubSeq(ds, 1, Len(ds) - 1)) + DigitValue(ds[Len(ds)])

\* int(str), for a str with IsInt(str).
IntOf(str) ==
    LET body == Strip(str, {SP})
    IN  IF Head(body) = "-" THEN 0 - Decimal(Unsigned(str)) ELSE Decimal(Unsigned(str))

Max(a, b) == IF a >= b THEN a ELSE b

\* The version assumed when the query tells none: ["0","1","19"].
BaselineVersion == << <<"0">>, <<"1">>, <<"1", "9">> >>

\* Lines 85-93 and 107-115: _samtoolsversion after the try block.  out is what
\* Execute did: it raised, or it returned the lines of the output.  A raise,
\* and the IndexError of _out[0] on an empty output, are swallowed.
SamtoolsVersion(out) ==
    IF out.kind = "raise" \/ out.lines = <<>> THEN BaselineVersion
    ELSE IF Contains(out.lines[1], Samtools)
    THEN Split(Strip(SubSeq(out.lines[1], 9, Len(out.lines[1])), {SP}), ".")
    ELSE BaselineVersion

NoBErr == [exc |-> "", from |-> "", stage |-> ""]
BRaise(exc, from, stage) == [exc |-> exc, from |-> from, stage |-> stage]

\* A call of Execute: the command, and whether Execute returned or raised.
Cmd(op, form, threads, cargs, ok) ==
    [op |-> op, form |-> form, threads |-> threads, args |-> cargs, ok |-> ok]

\* _out, _code, _msg = Execute(self.name, cmd) for a version query: Execute
\* raises, or returns the lines the tool prints.
QueryResult(raises, lines) ==
    IF raises THEN [kind |-> "raise", lines |-> <<>>]
    ELSE [kind |-> "out", lines |-> lines]

\* The file names the service is constructed with, other than the output BAM.
UnsortedBamFile == <<"i", "n">>
OutBaiFile == <<"o", ".", "b", "a", "i">>

\* NameAccepted as it would be if the name were tested for "bam", no dot.
NameAcceptedNoDot(sortedBamFile) == EndsWith(sortedBamFile, <<"b", "a", "m">>)

\* Line 80: the test on the sorted file's name.
NameAccepted(sortedBamFile) == EndsWith(sortedBamFile, BamSuffix)

\* SortCmd as it would be if the single-step form were chosen above 1 only.
SortCmdAboveOne(stvmajor, np, sortedBamFile, unsortedBamFile, ok) ==
    IF stvmajor > 1
    THEN Cmd("samtools sort", "-o", Max(1, np \div 4),
             <<sortedBamFile, unsortedBamFile>>, ok)
    ELSE Cmd("samtools sort", "prefix", Max(1, np \div 4),
             <<unsortedBamFile, SubSeq(sortedBamFile, 1, Len(sortedBamFile) - 4)>>, ok)

\* SortCmd as it would be without the lower limit of one thread.
SortCmdUnclamped(stvmajor, np, sortedBamFile, unsortedBamFile, ok) ==
    IF stvmajor >= 1
    THEN Cmd("samtools sort", "-o", np \div 4,
             <<sortedBamFile, unsortedBamFile>>, ok)
    ELSE Cmd("samtools sort", "prefix", np \div 4,
             <<unsortedBamFile, SubSeq(sortedBamFile, 1, Len(sortedBamFile) - 4)>>, ok)

\* Lines 95-101: the sort command for a major version.
SortCmd(stvmajor, np, sortedBamFile, unsortedBamFile, ok) ==
    IF stvmajor >= 1
    THEN Cmd("samtools sort", "-o", Max(1, np \div 4),
             <<sortedBamFile, unsortedBamFile>>, ok)
    ELSE Cmd("samtools sort", "prefix", Max(1, np \div 4),
             <<unsortedBamFile, SubSeq(sortedBamFile, 1, Len(sortedBamFile) - 4)>>, ok)

\* SortbamResult as it would be if a failure of the sort command were
\* swallowed.
SortbamResultSwallowing(unsortedBamFile, sortedBamFile, np, out, ok) ==
    LET query == Cmd("samtools --version", "||true", 0, <<>>, out.kind # "raise")
        version == SamtoolsVersion(out)
    IN  IF ~NameAccepted(sortedBamFile)
        THEN [cmds |-> <<>>, err |-> BRaise("ValueError", "name", "sort")]
        ELSE IF ~IsInt(version[1])
        THEN [cmds |-> <<query>>, err |-> BRaise("ValueError", "version", "sort")]
        ELSE [cmds |-> <<query, SortCmd(IntOf(version[1]), np, sortedBamFile,
                                        unsortedBamFile, ok)>>,
              err |-> NoBErr]

\* _sortbam(unsortedBamFile, sortedBamFile, nproc), the version query giving
\* out and the sort command succeeding or not: the calls of Execute and the
\* exception raised, if any.
SortbamResult(unsortedBamFile, sortedBamFile, np, out, ok) ==
    LET query == Cmd("samtools --version", "||true", 0, <<>>, out.kind # "raise")
        version == SamtoolsVersion(out)
    IN  IF ~NameAccepted(sortedBamFile)
        THEN [cmds |-> <<>>, err |-> BRaise("ValueError", "name", "sort")]
        ELSE IF ~IsInt(version[1])
        THEN [cmds |-> <<query>>, err |-> BRaise("ValueError", "version", "sort")]
        ELSE [cmds |-> <<query, SortCmd(IntOf(version[1]), np, sortedBamFile,
                                        unsortedBamFile, ok)>>,
              err |-> IF ok THEN NoBErr ELSE BRaise("RuntimeError", "execute", "sort")]

\* IndexCmd as it would be if the minor version were not looked at.
IndexCmdAnyMinor(stvmajor, stvminor, sortedBamFile, outBaiFile, ok) ==
    IF stvmajor = 1
    THEN Cmd("samtools index", "one", 0, <<sortedBamFile>>, ok)
    ELSE Cmd("samtools index", "two", 0, <<sortedBamFile, outBaiFile>>, ok)

\* Lines 118-124: the index command for a version.
IndexCmd(stvmajor, stvminor, sortedBamFile, outBaiFile, ok) ==
    IF stvmajor = 1 /\ stvminor = 2
    THEN Cmd("samtools index", "one", 0, <<sortedBamFile>>, ok)
    ELSE Cmd("samtools index", "two", 0, <<sortedBamFile, outBaiFile>>, ok)

\* _makebai(sortedBamFile, outBaiFile)
MakebaiResult(sortedBamFile, outBaiFile, out, ok) ==
    LET query == Cmd("samtools --version", "", 0, <<>>, out.kind # "raise")
        version == SamtoolsVersion(out)
    IN  IF ~IsInt(version[1])
        THEN [cmds |-> <<query>>, err |-> BRaise("ValueError", "version", "index")]
        ELSE IF Len(version) < 2
        THEN [cmds |-> <<query>>, err |-> BRaise("IndexError", "version", "index")]
        ELSE IF ~IsInt(version[2])
        THEN [cmds |-> <<query>>, err |-> BRaise("ValueError", "version", "index")]
        ELSE [cmds |-> <<query, IndexCmd(IntOf(version[1]), IntOf(version[2]),
                                         sortedBamFile, outBaiFile, ok)>>,
              err |-> IF ok THEN NoBErr ELSE BRaise("RuntimeError", "execute", "index")]

\* _makepbi(sortedBamFile)
MakepbiResult(sortedBamFile, ok) ==
    [cmds |-> <<Cmd("pbindex", "", 0, <<sortedBamFile>>, ok)>>,
     err |-> IF ok THEN NoBErr ELSE BRaise("RuntimeError", "execute", "pbindex")]

-----------------------------------------------------------------------------
(* The inputs of a run of the service.                                     *)

MaxStemLen == 1     \* characters of the output name before its ending
MaxNproc == 8       \* the largest process count
MaxVersionLen == 3  \* characters of the version text after the tool's name

\* Output names: a stem and an ending.
OutNames ==
    { stem \o ending :
        stem \in SeqsUpTo({"o"}, MaxStemLen),
        ending \in { <<>>, BamSuffix, <<".", "s", "a", "m">>, <<"b", "a", "m">>,
                     <<".", "b", "a", "m", ".">> } }

NprocValues == (0 - 1)..MaxNproc

VersionChars == {"0", "1", "2", "."}

\* What follows the tool's name on the first line of the output.
VersionTexts ==
    SeqsUpTo(VersionChars, MaxVersionLen) \cup
    { <<"1", ".", "3", ".", "1">>, <<"0", ".", "1", ".", "1", "9">>,
      <<"1", ".", "2", ".", "0">>, <<"1", ".", "3", ".", "0">>,
      <<"1", ".", "2", "0">>, <<"-", "1", ".", "2">>, <<"x">>, <<"x", ".", "2">>,
      <<"1", ".", "x">>, <<"1", ".", "2", "x">> }

\* What precedes it: the tool's name and a blank, nothing, or a line that
\* holds the tool's name further on.
LinePrefixes == { Samtools \o <<SP>>, <<>>, <<"x">> \o Samtools }

\* What samtools --version prints: no line, or a first line.
VersionOutputs ==
    { <<>> } \cup { <<prefix \o text>> : prefix \in LinePrefixes, text \in VersionTexts }

-----------------------------------------------------------------------------
(* BamPostService.run as a state machine: _sortbam, _makebai, _makepbi.    *)

OptIdle ==
    /\ args = [k \in Dests |-> <<>>]
    /\ configFile = NoFile
    /\ pc = "idle"
    /\ err = NoErr
    /\ selected = None
    /\ parsedOptions = EmptyNamespace
    /\ additionalDefaults = DEFAULT_OPTIONS
    /\ resolved = EmptyNamespace
    /\ FirstCall

InitBam ==
    /\ outBamFile \in OutNames
    /\ nproc \in NprocValues
    /\ bpc = "init"
    /\ berr = NoBErr
    /\ versionOutput \in VersionOutputs
    /\ cmds = <<>>
    /\ OptIdle

\* self._sortbam(...), the first call of run()
Sortbam ==
    /\ bpc = "init"
    /\ \E raises \in BOOLEAN, ok \in BOOLEAN :
         LET r == SortbamResult(UnsortedBamFile, outBamFile, nproc,
                                QueryResult(raises, versionOutput), ok)
         IN  /\ cmds' = cmds \o r.cmds
             /\ berr' = r.err
             /\ bpc' = IF r.err = NoBErr THEN "sorted" ELSE "failed"
    /\ UNCHANGED <<outBamFile, nproc, versionOutput>>
    /\ UNCHANGED optVars

\* self._makebai(...), the second call of run()
Makebai ==
    /\ bpc = "sorted"
    /\ \E raises \in BOOLEAN, ok \in BOOLEAN :
         LET r == MakebaiResult(outBamFile, OutBaiFile,
                                QueryResult(raises, versionOutput), ok)
         IN  /\ cmds' = cmds \o r.cmds
             /\ berr' = r.err
             /\ bpc' = IF r.err = NoBErr THEN "indexed" ELSE "failed"
    /\ UNCHANGED <<outBamFile, nproc, versionOutput>>
    /\ UNCHANGED optVars

\* self._makepbi(...), the third call of run()
Makepbi ==
    /\ bpc = "indexed"
    /\ \E ok \in BOOLEAN :
         LET r == MakepbiResult(outBamFile, ok)
         IN  /\ cmds' = cmds \o r.cmds
             /\ berr' = r.err
             /\ bpc' = IF r.err = NoBErr THEN "done" ELSE "failed"
    /\ UNCHANGED <<outBamFile, nproc, versionOutput>>
    /\ UNCHANGED optVars

NextBam == Sortbam \/ Makebai \/ Makepbi

SpecBam == InitBam /\ [][NextBam]_vars

-----------------------------------------------------------------------------
(* resolved_tool_contract_to_args: the options of a resolved tool contract  *)
(* are written out as command-line arguments with str() and a format        *)
(* string, and parsed back by the parser.  The text of a number is a        *)
(* sequence of single characters.                                           *)

\* The digit character of a number below ten.
DigitChar(d) == CHOOSE c \in Digits : DigitValue(c) = d

RECURSIVE DigitsOf(_)
\* The decimal digits of a natural number.
DigitsOf(n) ==
    IF n < 10 THEN <<DigitChar(n)>> ELSE DigitsOf(n \div 10) \o <<DigitChar(n % 10)>>

\* str(n) for an int n.
StrOfInt(n) == IF n < 0 THEN <<"-">> \o DigitsOf(0 - n) ELSE DigitsOf(n)

\* The significant digits str() keeps of a float.  The module is Python 2
\* (dict.iteritems, line 492), where str(float) formats with '%.12g'.
StrPrecision == 12

RECURSIVE Incremented(_)
\* The digits ds, not all nines, with one added in the last place.
Incremented(ds) ==
    LET front == SubSeq(ds, 1, Len(ds) - 1)
        last == ds[Len(ds)]
    IN  IF last = "9" THEN Incremented(front) \o <<"0">>
        ELSE front \o <<DigitChar(DigitValue(last) + 1)>>

\* A float rounded to at most prec significant digits.
RoundedTo(f, prec) ==
    IF Len(f.s) <= prec THEN f
    ELSE LET kept == SubSeq(f.s, 1, prec)
         IN  IF DigitValue(f.s[prec + 1]) < 5
             THEN FloatV(f.n, RStrip(kept, {"0"}))
             ELSE IF \A i \in 1..prec : kept[i] = "9"
             THEN FloatV(f.n + 1, <<"1">>)
             ELSE FloatV(f.n, RStrip(Incremented(kept), {"0"}))

\* n zeros.
Zeros(n) == [i \in 1..n |-> "0"]

\* str(f) for a float f of zero or more: the rounded value in positional
\* notation, with at least one digit on each side of the point.
StrOfFloat(f) ==
    LET r == RoundedTo(f, StrPrecision)
        ds == r.s
        p == r.n
    IN  IF p <= 0
        THEN <<"0", ".">> \o (IF ds = <<>> THEN <<"0">> ELSE Zeros(0 - p) \o ds)
        ELSE IF Len(ds) <= p
        THEN ds \o Zeros(p - Len(ds)) \o <<".", "0">>
        ELSE SubSeq(ds, 1, p) \o <<".">> \o SubSeq(ds, p + 1, Len(ds))

\* float(text) for a text of digits with at most one point in it.
FloatOf(text) ==
    LET parts == Split(text, ".")
        whole == parts[1]
        frac == IF Len(parts) > 1 THEN parts[2] ELSE <<>>
        all == whole \o frac
        significant == LStrip(all, {"0"})
    IN  IF significant = <<>> THEN FloatV(0, <<>>)
        ELSE FloatV(Len(whole) - (Len(all) - Len(significant)),
                    RStrip(significant, {"0"}))

\* The options of the contract as the argument list holds them (lines
\* 575-590): each number through str(), the algorithm options between two
\* double quotes after "--algorithmOptions=", and no such argument at all
\* for empty algorithm options.
ContractArgv(contract) ==
    [k \in Dests |->
        CASE k = "nproc" -> <<StrOfInt(contract.nproc)>>
          [] k = "minAccuracy" -> <<StrOfFloat(contract.minAccuracy)>>
          [] k = "minLength" -> <<StrOfInt(contract.minLength)>>
          [] k = "algorithmOptions" ->
                IF contract.algorithmOptions # <<>>
                THEN << <<DQ>> \o contract.algorithmOptions \o <<DQ>> >>
                ELSE <<>>
          [] OTHER -> <<>>]

\* argparse's conversion of an argument's text by the option's type=.
Converted(k, text) ==
    CASE DeclaredType(k) = "int" -> IntV(IntOf(text))
      [] DeclaredType(k) = "float" -> FloatOf(text)
      [] OTHER -> StrV(text)

\* The argument list of the contract as the parser receives it.
ContractArgs(contract) ==
    [k \in Dests |->
        [i \in 1..Len(ContractArgv(contract)[k]) |->
            Converted(k, ContractArgv(contract)[k][i])]]

MaxOptLen == 3      \* characters of a contract's algorithm options

\* The resolved tool contracts: a process count, a minimum accuracy (70.0,
\* 75.5, 70.1234567890123, 99.9999999999999), a minimum length, and
\* algorithm options of quotes, blanks and words.
Contracts ==
    [ nproc : {1, 8, 16},
      minAccuracy : { FloatV(2, <<"7">>), FloatV(2, <<"7", "5", "5">>),
                      FloatV(2, <<"7", "0", "1", "2", "3", "4", "5", "6", "7", "8",
                                  "9", "0", "1", "2", "3">>),
                      FloatV(2, [i \in 1..15 |-> "9"]) },
      minLength : {0, 50},
      algorithmOptions : SeqsUpTo({DQ, SQ, SP, "x"}, MaxOptLen) ]

InitContract ==
    /\ rtc \in Contracts
    /\ args = [k \in Dests |-> <<>>]
    /\ configFile = NoFile
    /\ pc = "contract"
    /\ err = NoErr
    /\ selected = None
    /\ parsedOptions = EmptyNamespace
    /\ additionalDefaults = DEFAULT_OPTIONS
    /\ resolved = EmptyNamespace
    /\ run = 1
    /\ firstRun = NoRun
    /\ BamIdle

\* resolved_tool_contract_to_args(rtc): the argument list is built and
\* p.parse_args(args) is returned.
ResolvedToolContractToArgs ==
    /\ pc = "contract"
    /\ LET r == ParseArgsResult(ContractArgs(rtc), configFile)
       IN  /\ args' = ContractArgs(rtc)
           /\ err' = r.err
           /\ selected' = r.selected
           /\ parsedOptions' = r.ns
           /\ pc' = IF r.err = NoErr THEN "parsed" ELSE "failed"
    /\ UNCHANGED <<configFile, additionalDefaults, resolved, run, firstRun, rtc>>
    /\ UNCHANGED bamVars

NextContract == ResolvedToolContractToArgs \/ ImportDefaults

SpecContract == InitContract /\ [][NextContract]_vars

-----------------------------------------------------------------------------
(* What the command line and the config file say, read off the inputs.     *)

\* The value option k has on the command line (store: the last occurrence,
\* store_true: True).
CliValue(k) ==
    IF ArgAction(k) = "store_true" THEN BoolV(TRUE) ELSE args[k][Len(args[k])]

\* The numbers of the config file's lines that assign option k.
AssigningLines(k) ==
    { i \in 1..Len(configFile.lines) :
        LET line == Strip(configFile.lines[i], {SP})
        IN  /\ ~IsSkipped(line)
            /\ SplitsInTwo(line)
            /\ LineKey(line) = <<k>> }

ConfigAssigns(k) == AssigningLines(k) # {}

\* The value the config file's last assignment of option k gives it.
ConfigValue(k) ==
    LET i == CHOOSE j \in AssigningLines(k) : \A m \in AssigningLines(k) : m <= j
    IN  StrV(LineValue(Strip(configFile.lines[i], {SP})))

Returned == pc \in {"parsed", "resolved"}

-----------------------------------------------------------------------------
\* C1: for every option other than algorithmOptions, a value given on the
\* command line is the resolved value whatever the config file assigns to the
\* same key, and an option absent from the command line but assigned in the
\* config file resolves to the config file's value.
C1_LayerPrecedence ==
    Returned =>
        \A k \in Dests \ {"algorithmOptions"} :
            /\ args[k] # <<>> => parsedOptions[k] = CliValue(k)
            /\ (args[k] = <<>> /\ ConfigAssigns(k)) => parsedOptions[k] = ConfigValue(k)

\* The command line's --nproc 4 wins over the config file's nproc = 16, and
\* maxHits, absent from the command line, keeps the config file's 7.
C1_Witness ==
    /\ pc = "parsed"
    /\ args["nproc"] = <<IntV(4)>>
    /\ ConfigAssigns("nproc")
    /\ ConfigValue("nproc") = StrV(<<"16">>)
    /\ parsedOptions["nproc"] = IntV(4)
    /\ args["maxHits"] = <<>>
    /\ parsedOptions["maxHits"] = StrV(<<"7">>)

-----------------------------------------------------------------------------
\* The occurrences of --algorithmOptions on the command line, in order, with
\* one blank between two neighbours.
RECURSIVE SpaceSeparated(_)
SpaceSeparated(occ) ==
    IF Len(occ) = 1 THEN occ[1].s
    ELSE SpaceSeparated(SubSeq(occ, 1, Len(occ) - 1)) \o <<SP>> \o occ[Len(occ)].s

\* parse_args got as far as selecting the algorithm options.
Selected == Returned \/ (pc = "failed" /\ err.exc = "IndexError")

\* C2: the value selected for algorithmOptions is all command-line occurrences
\* joined in order with one blank if there is any, whatever the config file
\* assigns; else the config file's value if it assigns one; else None.
C2_AlgorithmOptionsSelection ==
    Selected =>
        selected = IF args["algorithmOptions"] # <<>>
                   THEN StrV(SpaceSeparated(args["algorithmOptions"]))
                   ELSE IF ConfigAssigns("algorithmOptions")
                   THEN ConfigValue("algorithmOptions")
                   ELSE None

\* Two occurrences on the command line and an assignment in the config file:
\* the two occurrences are selected, joined with one blank.
C2_Witness ==
    /\ pc = "parsed"
    /\ Len(args["algorithmOptions"]) = 2
    /\ args["algorithmOptions"][1] # args["algorithmOptions"][2]
    /\ ConfigAssigns("algorithmOptions")
    /\ selected = StrV(args["algorithmOptions"][1].s \o <<SP>> \o
                       args["algorithmOptions"][2].s)

-----------------------------------------------------------------------------
\* The first and last characters of s are the same quote character.
MatchingQuotePair(s) == Len(s) >= 2 /\ s[1] \in Quotes /\ s[1] = s[Len(s)]

\* C3: the resolved algorithm options are the selected string without its
\* first and last characters if and only if those two are a matching quote
\* pair, and the selected string unchanged in every other case.
C3_StripsMatchingPairOnly ==
    (Returned /\ selected # None) =>
        parsedOptions["algorithmOptions"] =
            IF MatchingQuotePair(selected.s)
            THEN StrV(SubSeq(selected.s, 2, Len(selected.s) - 1))
            ELSE selected

-----------------------------------------------------------------------------
\* Line i of the config file is a key=value line whose key is no option.
UnknownKeyLine(i) ==
    LET line == Strip(configFile.lines[i], {SP})
    IN  /\ ~IsSkipped(line)
        /\ SplitsInTwo(line)
        /\ \A k \in Dests : LineKey(line) # <<k>>

\* Line i of the config file is none of comment, blank, reserved name, and
\* does not hold exactly one '='.
MalformedLine(i) ==
    LET line == Strip(configFile.lines[i], {SP})
    IN  /\ ~IsSkipped(line)
        /\ Cardinality({j \in 1..Len(line) : line[j] = "="}) # 1

\* C4: a config file with a key=value line whose key is not an option's name
\* makes the resolution fail: no options are returned and no default is
\* filled in; with only valid lines before it, the failure is the invalid
\* option error at that line.
C4_UnknownKeyFails ==
    pc # "start" =>
        \A i \in 1..Len(configFile.lines) :
            UnknownKeyLine(i) =>
                /\ pc = "failed"
                /\ err.exc = "ValueError"
                /\ parsedOptions = EmptyNamespace
                /\ resolved = EmptyNamespace
                /\ (\A j \in 1..(i - 1) : ~UnknownKeyLine(j) /\ ~MalformedLine(j))
                       => (err.msg = "is an invalid option" /\ err.line = i)

\* An unknown key on line 2, after a valid assignment on line 1.
C4_Witness ==
    /\ pc = "failed"
    /\ Len(configFile.lines) = 2
    /\ AssigningLines("nproc") = {1}
    /\ UnknownKeyLine(2)
    /\ err = Raise("ValueError", "is an invalid option", 2)

-----------------------------------------------------------------------------
\* The config file without its comment, blank and reserved lines.
WithoutSkipped ==
    [configFile EXCEPT !.lines =
        SelectSeq(configFile.lines, LAMBDA l : ~IsSkipped(Strip(l, {SP})))]

\* C5: a config file that cannot be opened fails the resolution; so does a
\* line that is none of comment, blank, reserved name and holds no '=' or
\* more than one (the parse error, at that line, when only valid lines come
\* before it); a comment, blank or reserved line never fails the resolution
\* and never changes an option.
C5_LineGrammar ==
    pc # "start" =>
        /\ configFile.kind = "unreadable" => (pc = "failed" /\ err.exc = "IOError")
        /\ \A i \in 1..Len(configFile.lines) :
               MalformedLine(i) =>
                   /\ pc = "failed"
                   /\ err.exc = "ValueError"
                   /\ (\A j \in 1..(i - 1) : ~UnknownKeyLine(j) /\ ~MalformedLine(j))
                          => (err.msg = "could not find '='" /\ err.line = i)
        /\ err.line > 0 => ~IsSkipped(Strip(configFile.lines[err.line], {SP}))
        /\ Returned =>
               LET r == ParseArgsResult(args, WithoutSkipped)
               IN  r.err = NoErr /\ r.ns = parsedOptions

\* A line with two '=' on line 2, after a comment that itself holds '='.
C5_Witness ==
    /\ pc = "failed"
    /\ configFile.lines = << <<"#", SP, "nproc", "=", "1", "=", "2">>,
                             <<"nproc", "=", "1", "=", "2">> >>
    /\ err = Raise("ValueError", "could not find '='", 2)

-----------------------------------------------------------------------------
\* What the default-fill pass is to return for options and defaults: every key
\* of the defaults is there, with the options' value unless that is None or
\* the key is missing, and every other key of the options is unchanged.
DefaultFilled(options, defaults) ==
    [k \in DOMAIN options \cup DOMAIN defaults |->
        IF k \in DOMAIN defaults /\ (k \notin DOMAIN options \/ options[k] = None)
        THEN defaults[k]
        ELSE options[k]]

\* C6: importDefaultOptions returns, for every options object and defaults
\* map, the options with every key of the defaults present: the options' own
\* value where it is not None (False, 0 and "" are kept), the default where
\* it is None or the key is missing; keys outside the defaults are unchanged.
C6_DefaultFillAgrees ==
    pc # "parsed" =>
        /\ pc = "resolved"
        /\ resolved = DefaultFilled(parsedOptions, additionalDefaults)

-----------------------------------------------------------------------------
(* What a run of the service did, read off the calls of Execute.           *)

\* The output name ends in the four characters ".bam".
HasBamSuffix ==
    /\ Len(outBamFile) >= 4
    /\ outBamFile[Len(outBamFile) - 3] = "."
    /\ outBamFile[Len(outBamFile) - 2] = "b"
    /\ outBamFile[Len(outBamFile) - 1] = "a"
    /\ outBamFile[Len(outBamFile)] = "m"

Calls(op) == { i \in 1..Len(cmds) : cmds[i].op = op }

\* The sort stage's version query is the first call, the index stage's the
\* version query made without "||true".
SortQueried == cmds # <<>>
IndexQuery == { i \in Calls("samtools --version") : cmds[i].form = "" }
IndexQueried == IndexQuery # {}

\* The version a stage worked with, given the call that was its query.
VersionAt(i) == SamtoolsVersion(QueryResult(~cmds[i].ok, versionOutput))

Line(prefix, text) == <<prefix \o <<SP>> \o text>>

-----------------------------------------------------------------------------
\* C7: whatever a version query gives (Execute raises, no output, a first
\* line without the tool's name, a first line with the tool's name and
\* something that is no dotted number after it), the sort stage and the index
\* stage raise no error that comes from the query or from reading the
\* version, and go on to execute their command.
C7_ProbingNeverFatal ==
    /\ berr.from # "version"
    /\ (bpc # "init" /\ SortQueried) => Calls("samtools sort") # {}
    /\ (bpc \notin {"init", "sorted"} /\ IndexQueried) => Calls("samtools index") # {}

-----------------------------------------------------------------------------
\* C8: a sort stage whose name was accepted and whose probed major version
\* is a number executes exactly one sort command: the single-step form
\* (-o, the output path, the input) for a major version of 1 or more, the
\* prefix form (the input, the output path without its ".bam") for a major
\* version of 0, which is also what a failed probe gives.  No run executes
\* more than one sort command.
C8_SortDispatch ==
    /\ Cardinality(Calls("samtools sort")) <= 1
    /\ (SortQueried /\ IsInt(VersionAt(1)[1])) =>
         /\ Calls("samtools sort") = {2}
         /\ IntOf(VersionAt(1)[1]) >= 1 =>
                /\ cmds[2].form = "-o"
                /\ cmds[2].args = <<outBamFile, UnsortedBamFile>>
         /\ IntOf(VersionAt(1)[1]) = 0 =>
                /\ cmds[2].form = "prefix"
                /\ Len(cmds[2].args) = 2
                /\ cmds[2].args[1] = UnsortedBamFile
                /\ cmds[2].args[2] \o <<".", "b", "a", "m">> = outBamFile
    /\ (SortQueried /\ cmds[1].ok
          /\ versionOutput = Line(Samtools, <<"1", ".", "3", ".", "1">>))
         => (Len(cmds) >= 2 /\ cmds[2].form = "-o")
    /\ (SortQueried /\ cmds[1].ok
          /\ versionOutput = Line(Samtools, <<"0", ".", "1", ".", "1", "9">>))
         => (Len(cmds) >= 2 /\ cmds[2].form = "prefix")
    /\ (SortQueried /\ ~cmds[1].ok) => (Len(cmds) >= 2 /\ cmds[2].form = "prefix")

\* samtools 1.0 was probed and the single-step form was executed.
C8_Witness ==
    /\ bpc = "sorted"
    /\ cmds[1].ok
    /\ versionOutput = Line(Samtools, <<"1", ".", "0">>)
    /\ cmds[2] = Cmd("samtools sort", "-o", Max(1, nproc \div 4),
                     <<outBamFile, UnsortedBamFile>>, TRUE)

-----------------------------------------------------------------------------
\* C9: an index stage whose probed major and minor versions are numbers
\* executes the single-argument form if and only if major = 1 and minor = 2,
\* and the two-argument form naming the index path for every other version,
\* the baseline after a failed probe included.
C9_IndexDispatch ==
    \A i \in IndexQuery :
        /\ (IsInt(VersionAt(i)[1]) /\ Len(VersionAt(i)) >= 2 /\ IsInt(VersionAt(i)[2])) =>
             /\ Calls("samtools index") = {i + 1}
             /\ cmds[i + 1].form = "one"
                    <=> (IntOf(VersionAt(i)[1]) = 1 /\ IntOf(VersionAt(i)[2]) = 2)
             /\ cmds[i + 1].form = "one" => cmds[i + 1].args = <<outBamFile>>
             /\ cmds[i + 1].form # "one" =>
                    (cmds[i + 1].form = "two" /\ cmds[i + 1].args = <<outBamFile, OutBaiFile>>)
        /\ (cmds[i].ok /\ versionOutput = Line(Samtools, <<"1", ".", "2", ".", "0">>))
             => (Len(cmds) > i /\ cmds[i + 1].form = "one")
        /\ (cmds[i].ok /\ versionOutput \in
                { Line(Samtools, <<"1", ".", "3", ".", "0">>),
                  Line(Samtools, <<"1", ".", "2", "0">>),
                  Line(Samtools, <<"0", ".", "1", ".", "1", "9">>) })
             => (Len(cmds) > i /\ cmds[i + 1].form = "two")
        /\ ~cmds[i].ok => (Len(cmds) > i /\ cmds[i + 1].form = "two")

\* samtools 1.2.0 was probed and the single-argument form was executed.
C9_Witness ==
    /\ bpc = "indexed"
    /\ IndexQuery = {3}
    /\ cmds[3].ok
    /\ versionOutput = Line(Samtools, <<"1", ".", "2", ".", "0">>)
    /\ cmds[4] = Cmd("samtools index", "one", 0, <<outBamFile>>, TRUE)

-----------------------------------------------------------------------------
\* C10: an output name that does not end in ".bam" makes the sort stage fail
\* with ValueError before anything is handed to Execute, the version query
\* included, and the run executes no command afterwards.
C10_NameCheckedFirst ==
    (bpc # "init" /\ ~HasBamSuffix) =>
        /\ bpc = "failed"
        /\ berr = BRaise("ValueError", "name", "sort")
        /\ cmds = <<>>
        /\ ~ENABLED NextBam

\* The output name o.sam was rejected with nothing executed.
C10_Witness ==
    /\ bpc = "failed"
    /\ outBamFile = <<"o", ".", "s", "a", "m">>
    /\ berr.exc = "ValueError"
    /\ cmds = <<>>

-----------------------------------------------------------------------------
\* The calls of Execute that are a stage's command, not a version query.
StageCalls == Calls("samtools sort") \cup Calls("samtools index") \cup Calls("pbindex")

\* C11: a run executes the stage commands in the order sort, index, pbindex,
\* each at most once; the index command is executed only after a sort command
\* that returned, the pbindex command only after an index command that
\* returned; a stage command that failed is the last thing the run executes,
\* and the run does nothing more after a failure.
C11_StagesInOrder ==
    /\ Cardinality(Calls("samtools sort")) <= 1
    /\ Cardinality(Calls("samtools index")) <= 1
    /\ Cardinality(Calls("pbindex")) <= 1
    /\ \A i \in Calls("samtools index") :
           \E s \in Calls("samtools sort") : s < i /\ cmds[s].ok
    /\ \A p \in Calls("pbindex") :
           \E i \in Calls("samtools index") : i < p /\ cmds[i].ok
    /\ \A c \in StageCalls :
           ~cmds[c].ok => (c = Len(cmds) /\ bpc = "failed")
    /\ bpc = "failed" => ~ENABLED NextBam
    /\ bpc = "done" =>
           (\A c \in StageCalls : cmds[c].ok) /\ Calls("pbindex") = {Len(cmds)}

\* The sort command returned, the index command failed, and pbindex was
\* never executed.
C11_Witness ==
    /\ bpc = "failed"
    /\ berr = BRaise("RuntimeError", "execute", "index")
    /\ \E s \in Calls("samtools sort") : cmds[s].ok
    /\ \E i \in Calls("samtools index") : ~cmds[i].ok
    /\ Calls("pbindex") = {}

-----------------------------------------------------------------------------
\* The largest integer q with 4 * q <= n.
FloorOfQuarter(n) ==
    CHOOSE q \in (0 - MaxNproc - 1)..(MaxNproc + 1) : 4 * q <= n /\ n < 4 * (q + 1)

\* C12: in both forms of the sort command the thread count is
\* max(1, floor(nproc / 4)), for zero, one, two, three and a negative nproc
\* too: it is never zero or negative.
C12_SortThreads ==
    \A c \in Calls("samtools sort") :
        /\ cmds[c].form \in {"-o", "prefix"}
        /\ cmds[c].threads >= 1
        /\ cmds[c].threads =
               IF FloorOfQuarter(nproc) >= 1 THEN FloorOfQuarter(nproc) ELSE 1
        /\ nproc < 8 => cmds[c].threads = 1

\* The prefix form executed with nproc = 0 and one thread.
C12_Witness ==
    /\ nproc = 0
    /\ \E c \in Calls("samtools sort") :
           cmds[c].form = "prefix" /\ cmds[c].threads = 1

-----------------------------------------------------------------------------
\* The text after the '=' of the config file's last assignment of option k,
\* as the file has it.
TextAfterEquals(k) ==
    LET i == CHOOSE j \in AssigningLines(k) : \A m \in AssigningLines(k) : m <= j
        line == configFile.lines[i]
        p == CHOOSE q \in Positions(line, "=") : TRUE
    IN  SubSeq(line, p + 1, Len(line))

\* text trimmed of blanks, and without its first and last characters when
\* these are the same quote character: one layer of quotes, no more.
OneLayerOff(text) ==
    LET v == Strip(text, {SP})
    IN  IF MatchingQuotePair(v) THEN SubSeq(v, 2, Len(v) - 1) ELSE v

\* C13: the value the config-file pass stores for an option is the text after
\* '=' trimmed of blanks with exactly one layer of surrounding quotes removed
\* when there is one: a value in two layers of the same quote keeps the inner
\* layer, an unquoted value is stored as it is.  (The stored value is the
\* returned one for an option absent from the command line, and the selected
\* one for algorithmOptions.)
C13_OneQuoteLayerRemoved ==
    Selected =>
        /\ \A k \in Dests \ {"algorithmOptions"} :
               (Returned /\ args[k] = <<>> /\ ConfigAssigns(k)) =>
                   parsedOptions[k] = StrV(OneLayerOff(TextAfterEquals(k)))
        /\ (args["algorithmOptions"] = <<>> /\ ConfigAssigns("algorithmOptions")) =>
               selected = StrV(OneLayerOff(TextAfterEquals("algorithmOptions")))

-----------------------------------------------------------------------------
\* Every option of a namespace whose declared type is not str holds a value
\* of that type or None.
WellTyped(ns) ==
    \A k \in DOMAIN ns \cap Dests :
        DeclaredType(k) # "str" => ns[k].t \in {DeclaredType(k), "none"}

\* C14: after resolution every option declared int, float or bool holds a
\* value of its declared type or is unset, whichever layer supplied it: a
\* config-file value that the command line does not override included.
C14_DeclaredTypesKept ==
    /\ Returned => WellTyped(parsedOptions)
    /\ pc = "resolved" => WellTyped(resolved)

-----------------------------------------------------------------------------
\* C17: for every command line and every config file parse_args raises no
\* error from selecting or unquoting the algorithm options (an empty selected
\* string and a string of one quote included), and the algorithmOptions it
\* returns is a string or None.
C17_ReconciliationTotal ==
    /\ pc = "failed" => err.exc \in {"IOError", "ValueError"}
    /\ Returned => parsedOptions["algorithmOptions"].t \in {"str", "none"}

-----------------------------------------------------------------------------
\* How the resolution under way ended.
Outcome == [pc |-> pc, err |-> err, parsedOptions |-> parsedOptions,
            resolved |-> resolved]

-----------------------------------------------------------------------------
\* The algorithm options of the contract came back as they went in: wrapped
\* once in double quotes in the argument list and equal to the contract's in
\* the options ns; no argument and None for empty algorithm options.
AlgorithmOptionsKept(ns) ==
    IF rtc.algorithmOptions # <<>>
    THEN /\ args["algorithmOptions"] =
               <<StrV(<<DQ>> \o rtc.algorithmOptions \o <<DQ>>)>>
         /\ ns["algorithmOptions"] = StrV(rtc.algorithmOptions)
    ELSE /\ args["algorithmOptions"] = <<>>
         /\ ns["algorithmOptions"] = None

\* The numbers of the contract are the numbers of the options ns.
NumbersKept(ns) ==
    /\ ns["nproc"] = IntV(rtc.nproc)
    /\ ns["minAccuracy"] = rtc.minAccuracy
    /\ ns["minLength"] = IntV(rtc.minLength)

\* C16: the options of a resolved tool contract come back unchanged from the
\* resolution: non-empty algorithm options are wrapped once in double quotes
\* and resolve to exactly the contract's string, also when it begins and ends
\* with a quote; empty ones give no argument and unset algorithm options;
\* nproc, minAccuracy and minLength are the contract's.
C16_ContractRoundTrip ==
    /\ pc # "failed"
    /\ pc \in {"parsed", "resolved"} =>
           AlgorithmOptionsKept(parsedOptions) /\ NumbersKept(parsedOptions)
    /\ pc = "resolved" =>
           AlgorithmOptionsKept(resolved) /\ NumbersKept(resolved)

====
